---------------------------- MODULE Spec2Model ----------------------------
(***************************************************************************)
(* A model of src/app.py: the Streamlit script that authenticates against  *)
(* Google (authenticate_user), drains the Search Console query endpoint    *)
(* page by page (fetch_search_console_data) and analyses the table.        *)
(*                                                                         *)
(* One script run of main() is a walk of pc from "start" to "end" (or      *)
(* "crashed", when an exception leaves main).  Streamlit reruns the script *)
(* on every interaction (Rerun); the token file, the st.cache_data cache   *)
(* of load_credentials and st.session_state survive a rerun, and the last  *)
(* two are lost when the server process is restarted (Restart).            *)
(***************************************************************************)
EXTENDS Integers, Sequences, FiniteSets, TLC

(***************************************************************************)
(* Bounds of the model.                                                    *)
(***************************************************************************)
\* The clock runs over 0 .. MaxTime.
MaxTime == 2
\* Lifetime, in clock ticks, of an access token the authorization server issues.
TokenLifetime == 1
\* Number of access tokens the authorization server issues in one behaviour.
MaxTokens == 2
\* The remote holds at most MaxPages full pages of rows, plus a tail.
MaxPages == 2

(***************************************************************************)
(* Program constants.                                                      *)
(***************************************************************************)
\* "rowLimit": 25000 of the request body, and the short-page test.
RowLimit == 25000

\* dimensions = ['date', 'page', 'query'], as main passes them.
Dimensions == <<"date", "page", "query">>

\* The four metric columns every row carries after its keys.
MetricColumns == <<"clicks", "impressions", "ctr", "position">>

(***************************************************************************)
(* Optional values: Python's None is the empty sequence, a value v is <<v>>.*)
(***************************************************************************)
None == <<>>

Some(v) == <<v>>

(***************************************************************************)
(* google.oauth2.credentials.Credentials: token (0 stands for no token;    *)
(* every issued token has its own positive number), refresh_token (present *)
(* or not) and expiry.                                                     *)
(***************************************************************************)
Credentials(tok, rt, exp) == [token |-> tok, refresh_token |-> rt, expiry |-> exp]

\* credentials.expired at time t.
Expired(c, t) == t >= c.expiry

\* credentials.valid at time t: a token that has not expired.
IsValid(c, t) == c.token # 0 /\ ~Expired(c, t)

(***************************************************************************)
(* The token file TOKEN_FILE: absent, unreadable (a write that was opened  *)
(* with 'wb' and failed in pickle.dump leaves it truncated), or holding    *)
(* one pickled Credentials.                                                *)
(***************************************************************************)
NoFile == [exists |-> FALSE, data |-> None]

CorruptFile == [exists |-> TRUE, data |-> None]

FileWith(c) == [exists |-> TRUE, data |-> Some(c)]

VARIABLES
    now,            \* the clock
    issued,         \* number of access tokens issued so far
    tokenFile,      \* content of TOKEN_FILE
    loadCache,      \* st.cache_data's entry for load_credentials()
    pc,             \* where main() stands in this script run
    credentials,    \* main's credentials, as authenticate_user returned them
    auth,           \* what this run's authenticate_user call did
    lastExchangeFailed, \* whether the latest authenticate_user call, of this
                    \* run or an earlier one, ended in a failed code exchange
    all_responses,  \* fetch: the rows accumulated, as chunks of remote rows
    start_row,      \* fetch: the cursor
    requests,       \* fetch: the startRow of every page request issued
    remoteN,        \* number of rows the remote holds for this query
    fetch,          \* what the last fetch call did and how it ended
    ui,             \* messages of this script run: st.error / st.success
    df,             \* st.session_state.df
    table,          \* identify_gaps: the rows of the table it is given
    gap,            \* identify_gaps: what the last call did and returned
    web,            \* what every URL serves at present
    probe           \* scrape_title_meta_description: the last call

authVars == <<now, issued, tokenFile, loadCache, credentials, auth,
              lastExchangeFailed>>

fetchVars == <<all_responses, start_row, requests, remoteN, fetch, df>>

\* The state of a script run of main.
mainVars == <<authVars, fetchVars, pc, ui>>

\* The state of the calls of identify_gaps and scrape_title_meta_description
\* that are followed one call at a time, on tables and pages written out row
\* by row and character by character.
callVars == <<table, gap, web, probe>>

vars == <<now, issued, tokenFile, loadCache, pc, credentials, auth,
          lastExchangeFailed,
          all_responses, start_row, requests, remoteN, fetch, ui, df,
          table, gap, web, probe>>


(***************************************************************************)
(* Session store: load_credentials and save_credentials.                   *)
(***************************************************************************)
\* The body of load_credentials at time t: the pickled credentials when the
\* file exists, unpickles and the credentials are valid; None otherwise (a
\* missing file, an exception while reading, credentials that are not valid).
LoadCredentialsBody(file, t) ==
    IF file.exists /\ file.data # None /\ IsValid(file.data[1], t)
    THEN file.data
    ELSE None

\* load_credentials() under @st.cache_data: the function has no arguments, so
\* its first return value (None included) is stored and every later call gets
\* a copy of it without running the body.
LoadCredentials(cache, file, t) ==
    IF cache.hit THEN cache.value ELSE LoadCredentialsBody(file, t)

\* save_credentials: open(TOKEN_FILE, 'wb') and pickle.dump, every exception
\* logged and swallowed.  "open_fails" leaves the file as it was, "dump_fails"
\* leaves the file truncated by the open.
SaveOutcomes == {"ok", "open_fails", "dump_fails"}

SaveCredentials(file, c, outcome) ==
    CASE outcome = "ok"         -> FileWith(c)
      [] outcome = "open_fails" -> file
      [] outcome = "dump_fails" -> CorruptFile

(***************************************************************************)
(* authenticate_user.  Its inputs: whether credentials.refresh succeeds,   *)
(* whether the Flow can be built from the client secrets, the code typed   *)
(* into the text input ("" for none; "good" is a code the authorization    *)
(* server accepts, "bad" one it rejects), whether the exchanged            *)
(* credentials carry a refresh token.                                      *)
(***************************************************************************)
Codes == {"", "good", "bad"}

\* credentials.refresh(Request()) succeeding: a new token and expiry, in place.
Refreshed(c, tok, t) == Credentials(tok, c.refresh_token, t + TokenLifetime)

\* flow.fetch_token(code) succeeding: flow.credentials.
Exchanged(tok, rt, t) == Credentials(tok, rt, t + TokenLifetime)

\* Line 57: the refresh is tried on credentials that are expired and carry a
\* refresh token.
TryRefresh(loaded, t) ==
    /\ loaded # None
    /\ Expired(loaded[1], t)
    /\ loaded[1].refresh_token

\* A failed refresh that keeps the expired credentials (no line 65).
AfterRefresh_KeepsExpired(loaded, tryRefresh, refreshOk) == loaded

\* Lines 63-65: a failed refresh is logged and credentials set to None.
AfterRefresh(loaded, tryRefresh, refreshOk) ==
    IF tryRefresh /\ ~refreshOk THEN None ELSE loaded

\* A refresh that returns without saving (no line 60).
SavedOnRefresh_Nothing(c) == <<>>

\* Line 60: the refreshed credentials are handed to save_credentials.
SavedOnRefresh(c) == <<c>>

\* Line 81: the exchanged credentials are handed to save_credentials.
SavedOnExchange(c) == <<c>>

\* What one call does, given what load_credentials returned: the value
\* returned, the calls made to the authorization server, the credentials
\* handed to save_credentials (in order) and the messages shown.
AuthenticateUserCall(loaded, t, tok, refreshOk, secretsOk, code, rt) ==
    LET tryRefresh == TryRefresh(loaded, t)
        refreshed  == tryRefresh /\ refreshOk
        afterRefresh == AfterRefresh(loaded, tryRefresh, refreshOk)
        tryFlow    == ~refreshed /\ afterRefresh = None
        tryExchange == tryFlow /\ secretsOk /\ code # ""
        exchanged  == tryExchange /\ code = "good"
        flowFailed == tryFlow /\ (~secretsOk \/ (tryExchange /\ ~exchanged))
    IN  [ret |-> IF refreshed THEN Some(Refreshed(loaded[1], tok, t))
                 ELSE IF exchanged THEN Some(Exchanged(tok, rt, t))
                 ELSE afterRefresh,
         path |-> IF refreshed THEN "refreshed"
                  ELSE IF exchanged THEN "exchanged"
                  ELSE IF afterRefresh # None THEN "reused"
                  ELSE "none",
         refreshCalls |-> IF tryRefresh THEN 1 ELSE 0,
         flowCalls |-> IF tryFlow THEN 1 ELSE 0,
         exchangeCalls |-> IF tryExchange THEN 1 ELSE 0,
         saves |-> IF refreshed
                   THEN SavedOnRefresh(Refreshed(loaded[1], tok, t))
                   ELSE IF exchanged
                   THEN SavedOnExchange(Exchanged(tok, rt, t))
                   ELSE <<>>,
         shown |-> (IF refreshed THEN {"Token refreshed successfully!"} ELSE {})
                   \cup (IF tryFlow /\ secretsOk
                         THEN {"Please authenticate using the following link:"}
                         ELSE {})
                   \cup (IF exchanged THEN {"Authentication successful!"} ELSE {})
                   \cup (IF flowFailed
                         THEN {"Authentication failed. Please try again."}
                         ELSE {})]

\* The record of a script run that has not called authenticate_user yet.
NoAuth ==
    [called |-> FALSE, fileBefore |-> NoFile, cacheHit |-> FALSE,
     loaded |-> None, at |-> 0, code |-> "", secretsOk |-> TRUE,
     afterFailure |-> FALSE,
     ret |-> None, path |-> "none", refreshCalls |-> 0, flowCalls |-> 0,
     exchangeCalls |-> 0,
     saves |-> <<>>, saveOutcome |-> "ok", shown |-> {}]

\* A main that goes on to the service whatever authenticate_user returned.
AfterAuthentication_Unchecked(ret) == "authed"

\* Lines 221 and 263-264: main goes on only with credentials.
AfterAuthentication(ret) == IF ret # None THEN "authed" ELSE "end"

\* credentials = authenticate_user(), line 219, and the branch of line 221:
\* without credentials main warns and the run ends.
AuthenticateUser ==
    /\ pc = "start"
    /\ \E refreshOk \in BOOLEAN, secretsOk \in BOOLEAN, code \in Codes,
          rt \in BOOLEAN, outcome \in SaveOutcomes :
         LET loaded == LoadCredentials(loadCache, tokenFile, now)
             call == AuthenticateUserCall(loaded, now, issued + 1,
                                          refreshOk, secretsOk, code, rt)
             file1 == IF call.saves = <<>> THEN tokenFile
                      ELSE SaveCredentials(tokenFile, call.saves[1], outcome)
             minted == call.path \in {"refreshed", "exchanged"}
         IN  /\ minted => issued < MaxTokens
             \* an input the call does not read is kept at one value
             /\ call.refreshCalls = 0 => refreshOk
             /\ call.flowCalls = 0 => secretsOk
             /\ (call.flowCalls = 0 \/ ~secretsOk) => code = ""
             /\ call.path # "exchanged" => rt
             /\ call.saves = <<>> => outcome = "ok"
             /\ loadCache' = [hit |-> TRUE, value |-> loaded]
             /\ tokenFile' = file1
             /\ issued' = IF minted THEN issued + 1 ELSE issued
             /\ lastExchangeFailed' =
                    (call.exchangeCalls = 1 /\ call.path # "exchanged")
             /\ credentials' = call.ret
             /\ auth' = [called |-> TRUE, fileBefore |-> tokenFile,
                         cacheHit |-> loadCache.hit, loaded |-> loaded,
                         at |-> now, code |-> code, secretsOk |-> secretsOk,
                         afterFailure |-> lastExchangeFailed,
                         ret |-> call.ret, path |-> call.path,
                         refreshCalls |-> call.refreshCalls,
                         flowCalls |-> call.flowCalls,
                         exchangeCalls |-> call.exchangeCalls,
                         saves |-> call.saves, saveOutcome |-> outcome,
                         shown |-> call.shown]
             /\ ui' = call.shown \cup
                      (IF call.ret = None
                       THEN {"Please authenticate with Google to use this application."}
                       ELSE {})
             /\ pc' = AfterAuthentication(call.ret)
    /\ UNCHANGED <<now, all_responses, start_row, requests, remoteN, fetch, df>>
    /\ UNCHANGED callVars

\* service = get_gsc_service(credentials), lines 222-223 and 261-262: build()
\* gives the service, or raises HttpError, and then main reports and ends.
GetService ==
    /\ pc = "authed"
    /\ \E built \in BOOLEAN :
         /\ pc' = IF built THEN "ready" ELSE "end"
         /\ ui' = IF built THEN ui
                  ELSE ui \cup {"Error connecting to the GSC service. Please try again later.",
                                "Failed to connect to Google Search Console. Please check your credentials and try again."}
    /\ UNCHANGED <<authVars, fetchVars>>
    /\ UNCHANGED callVars

(***************************************************************************)
(* The remote query endpoint and fetch_search_console_data.                *)
(*                                                                         *)
(* The remote holds remoteN rows, numbered from 0.  A run of consecutive   *)
(* remote rows is a chunk [first, count]; all_responses, a Python list of  *)
(* rows, is kept as the sequence of the chunks appended to it, so that a   *)
(* page of 25000 rows is one element.                                      *)
(*                                                                         *)
(* The actions below are one execution of the function's body.  The        *)
(* function is under @st.cache_data as well: a later call with equal       *)
(* arguments gets the stored table back without any request, so what one   *)
(* execution returned, a truncated table included, is what it keeps        *)
(* returning.                                                              *)
(***************************************************************************)
Min(a, b) == IF a < b THEN a ELSE b

\* The row counts the remote may hold: every number of full pages up to
\* MaxPages, followed by no row or by a page one row short of full.
RemoteSizes ==
    {k * RowLimit + r : k \in 0 .. MaxPages, r \in {0, RowLimit - 1}}

\* The answers execute() can give to a request with startRow = s when the
\* remote holds n rows: the rows s .. min(s + RowLimit, n) - 1 (when there is
\* none, a response without the 'rows' key or with an empty list), an
\* HttpError, or another exception (a transport error, a timeout).
Replies(s, n) ==
    (IF s < n
     THEN {[kind |-> "rows", first |-> s, count |-> Min(RowLimit, n - s)]}
     ELSE {[kind |-> "norows", first |-> s, count |-> 0],
           [kind |-> "rows", first |-> s, count |-> 0]})
    \cup {[kind |-> "HttpError", first |-> s, count |-> 0],
          [kind |-> "exception", first |-> s, count |-> 0]}

\* all_responses.extend(rows of the response).
Extend(all, reply) ==
    IF reply.count = 0 THEN all
    ELSE Append(all, [first |-> reply.first, count |-> reply.count])

\* pd.DataFrame(all_responses, columns=dimensions + [...]).
DataFrame(all, dimensions) ==
    [columns |-> dimensions \o MetricColumns, rows |-> all]

\* Number of rows of a list of chunks.
RECURSIVE RowCount(_)
RowCount(all) ==
    IF all = <<>> THEN 0 ELSE all[1].count + RowCount(Tail(all))

\* The record of a script run that has not called fetch.
NoFetch == [state |-> "idle", replies |-> <<>>, table |-> None]

\* st.button("Fetch Data") was not pressed in this run: line 231 is skipped.
SkipFetch ==
    /\ pc = "ready"
    /\ pc' = "analysis"
    /\ UNCHANGED <<authVars, fetchVars, ui>>
    /\ UNCHANGED callVars

\* The button was pressed: the call of line 235 starts, lines 103-104.
StartFetch ==
    /\ pc = "ready"
    /\ \E n \in RemoteSizes : remoteN' = n
    /\ all_responses' = <<>>
    /\ start_row' = 0
    /\ requests' = <<>>
    /\ fetch' = [state |-> "running", replies |-> <<>>, table |-> None]
    /\ pc' = "fetching"
    /\ UNCHANGED <<authVars, ui, df>>
    /\ UNCHANGED callVars

\* A loop that also stops on a full page (<= in place of <, line 123).
AfterReply_BreakOnFullPage(reply) ==
    CASE reply.kind = "rows"      -> IF reply.count <= RowLimit THEN "break"
                                     ELSE "fetching"
      [] reply.kind = "norows"    -> "break"
      [] reply.kind = "HttpError" -> "break"
      [] reply.kind = "exception" -> "crashed"

\* A loop that goes on after every page that has rows, until an empty one.
AfterReply_UntilEmptyPage(reply) ==
    CASE reply.kind = "rows"      -> IF reply.count = 0 THEN "break"
                                     ELSE "fetching"
      [] reply.kind = "norows"    -> "break"
      [] reply.kind = "HttpError" -> "break"
      [] reply.kind = "exception" -> "crashed"

\* A loop without the break of line 127.
AfterReply_NoBreakOnNoRows(reply) ==
    CASE reply.kind = "rows"      -> IF reply.count < RowLimit THEN "break"
                                     ELSE "fetching"
      [] reply.kind = "norows"    -> "fetching"
      [] reply.kind = "HttpError" -> "break"
      [] reply.kind = "exception" -> "crashed"

\* A loop that asks for the page again after an HttpError.
AfterReply_RetryOnError(reply) ==
    CASE reply.kind = "rows"      -> IF reply.count < RowLimit THEN "break"
                                     ELSE "fetching"
      [] reply.kind = "norows"    -> "break"
      [] reply.kind = "HttpError" -> "fetching"
      [] reply.kind = "exception" -> "crashed"

\* Where the loop goes after a reply: on to the next request, out of the loop
\* (break), or out of the function with the exception.
AfterReply(reply) ==
    CASE reply.kind = "rows"      -> IF reply.count < RowLimit THEN "break"
                                     ELSE "fetching"
      [] reply.kind = "norows"    -> "break"
      [] reply.kind = "HttpError" -> "break"
      [] reply.kind = "exception" -> "crashed"

\* A cursor that advances by the page size, not by the rows received.
NextStartRow_ByPageSize(start, reply) ==
    IF reply.kind = "rows" THEN start + RowLimit ELSE start

\* Line 122: start_row += len(response_data['rows']), when there are rows.
NextStartRow(start, reply) ==
    IF reply.kind = "rows" THEN start + reply.count ELSE start

\* One turn of the while loop, lines 106-131: one request and its handling.
PageRequest ==
    /\ pc = "fetching"
    /\ \E reply \in Replies(start_row, remoteN) :
         /\ requests' = Append(requests, start_row)
         /\ all_responses' = IF reply.kind = "rows"
                             THEN Extend(all_responses, reply)
                             ELSE all_responses
         /\ start_row' = NextStartRow(start_row, reply)
         /\ ui' = IF reply.kind = "HttpError"
                  THEN ui \cup {"Error fetching data from Google Search Console. Please try again."}
                  ELSE ui
         /\ pc' = AfterReply(reply)
         /\ fetch' = [fetch EXCEPT
                        !.replies = Append(@, reply),
                        !.state = IF reply.kind = "exception" THEN "raised" ELSE @]
    /\ UNCHANGED <<authVars, remoteN, df>>
    /\ UNCHANGED callVars

\* What fetch returns after the loop, line 133.
FetchResult(all) == DataFrame(all, Dimensions)

\* The return of line 133 and main's lines 237-239 on the returned table.
FetchReturn ==
    /\ pc = "break"
    /\ fetch' = [fetch EXCEPT !.state = "returned",
                              !.table = Some(FetchResult(all_responses))]
    /\ df' = Some(FetchResult(all_responses))
    /\ ui' = ui \cup {"Data fetched successfully!"}
    /\ pc' = "analysis"
    /\ UNCHANGED <<authVars, all_responses, start_row, requests, remoteN>>
    /\ UNCHANGED callVars

(***************************************************************************)
(* Lines 241-260: the analysis of st.session_state.df.  With a table and a *)
(* pattern typed, main runs its loop body for every page of the table that *)
(* matches: scrape_title_meta_description, identify_gaps,                  *)
(* generate_suggestions_for_title_meta.  A page's turn ends "suggested",   *)
(* "no_suggestion" (the suggestion request failed and returned None) or    *)
(* "scrape_raised" (an exception left the scrape, and main with it).       *)
(***************************************************************************)
\* What main shows for a page whose turn got past the scrape.
ScrapedMessages ==
    {"Current Title:", "Current Meta Description:",
     "Keywords missing in title/meta description:"}

\* What one run of the loop shows, given how the turns of the pages that
\* were completed ended and whether a scrape raised.
LoopMessages(ended, raised) ==
    {"Matching URLs:"}
    \cup (IF ended # {} \/ raised THEN {"Analyzing URL:"} ELSE {})
    \cup (IF ended # {} THEN ScrapedMessages ELSE {})
    \cup (IF "suggested" \in ended
          THEN {"AI-generated Suggestions (GPT-3.5 Turbo):"} ELSE {})
    \cup (IF "no_suggestion" \in ended
          THEN {"Error generating AI suggestions. Please check your API key and try again."}
          ELSE {})

Analysis ==
    /\ pc = "analysis"
    /\ \E pattern \in BOOLEAN, ended \in SUBSET {"suggested", "no_suggestion"},
          raised \in BOOLEAN :
         \* a pattern is asked for only when there is a table, and a page
         \* can match only in a table that has rows
         /\ pattern => df # None
         /\ (ended # {} \/ raised) =>
               (pattern /\ RowCount(df[1].rows) > 0)
         /\ ui' = IF pattern THEN ui \cup LoopMessages(ended, raised) ELSE ui
         /\ pc' = IF raised THEN "crashed" ELSE "end"
    /\ UNCHANGED <<authVars, fetchVars>>
    /\ UNCHANGED callVars

(***************************************************************************)
(* Between script runs.                                                    *)
(***************************************************************************)
RunOver == pc \in {"end", "crashed"}

\* Time passes.
Tick ==
    /\ RunOver
    /\ now < MaxTime
    /\ now' = now + 1
    /\ UNCHANGED <<issued, tokenFile, loadCache, pc, credentials, auth,
                   lastExchangeFailed, fetchVars, ui>>
    /\ UNCHANGED callVars

\* An interaction reruns the script: its locals and its messages start anew.
Rerun ==
    /\ RunOver
    /\ pc' = "start"
    /\ credentials' = None
    /\ auth' = NoAuth
    /\ all_responses' = <<>>
    /\ start_row' = 0
    /\ requests' = <<>>
    /\ remoteN' = 0
    /\ fetch' = NoFetch
    /\ ui' = {}
    /\ UNCHANGED <<now, issued, tokenFile, loadCache, lastExchangeFailed, df>>
    /\ UNCHANGED callVars

\* The server process is restarted: the cache of st.cache_data and
\* st.session_state are lost, the token file stays.
Restart ==
    /\ RunOver
    /\ pc' = "start"
    /\ loadCache' = [hit |-> FALSE, value |-> None]
    /\ df' = None
    /\ credentials' = None
    /\ auth' = NoAuth
    /\ all_responses' = <<>>
    /\ start_row' = 0
    /\ requests' = <<>>
    /\ remoteN' = 0
    /\ fetch' = NoFetch
    /\ ui' = {}
    /\ UNCHANGED <<now, issued, tokenFile, lastExchangeFailed>>
    /\ UNCHANGED callVars

(***************************************************************************)
(* Text.  A string is the sequence of its characters, a character is a     *)
(* string of length one.                                                   *)
(***************************************************************************)
\* The characters of the model, in code point order.
Alphabet ==
    <<" ", "-", "D", "E", "H", "R", "T",
      "b", "c", "d", "e", "f", "g", "h", "j", "k", "l", "n", "o", "p",
      "r", "s", "t", "u">>

Ord(c) == CHOOSE i \in 1..Len(Alphabet) : Alphabet[i] = c

\* What str.split() takes for a separator.
Whitespace == {" "}

\* string.punctuation, as far as the alphabet has it.
Punctuation == {"-"}

LowerChar(c) ==
    CASE c = "D" -> "d"
      [] c = "E" -> "e"
      [] c = "H" -> "h"
      [] c = "R" -> "r"
      [] c = "T" -> "t"
      [] OTHER -> c

\* str.lower().
Lower(word) == [i \in 1..Len(word) |-> LowerChar(word[i])]

\* a < b for two strings: the order sorted() and groupby put strings in.
RECURSIVE StrLess(_, _)
StrLess(a, b) ==
    IF b = <<>> THEN FALSE
    ELSE IF a = <<>> THEN TRUE
    ELSE IF Head(a) = Head(b) THEN StrLess(Tail(a), Tail(b))
    ELSE Ord(Head(a)) < Ord(Head(b))

\* A word of s begins at i: a character that is no whitespace, at the start
\* of s or after whitespace.
WordStart(s, i) ==
    s[i] \notin Whitespace /\ (i = 1 \/ s[i - 1] \in Whitespace)

\* Where the word that begins at i ends.
WordEnd(s, i) ==
    CHOOSE j \in i..Len(s) :
        /\ \A k \in i..j : s[k] \notin Whitespace
        /\ j = Len(s) \/ s[j + 1] \in Whitespace

RECURSIVE WordsFrom(_, _, _)
\* The words of s that begin at lo..hi, from left to right.
WordsFrom(s, lo, hi) ==
    IF lo > hi THEN <<>>
    ELSE IF lo = hi
         THEN IF WordStart(s, lo) THEN <<SubSeq(s, lo, WordEnd(s, lo))>>
              ELSE <<>>
    ELSE LET mid == (lo + hi) \div 2
         IN  WordsFrom(s, lo, mid) \o WordsFrom(s, mid + 1, hi)

\* str.split(): the maximal runs of characters that are not whitespace,
\* from left to right.
Split(s) == WordsFrom(s, 1, Len(s))

RECURSIVE Concat(_)
Concat(seqs) ==
    IF seqs = <<>> THEN <<>> ELSE Head(seqs) \o Concat(Tail(seqs))

\* word, n times over, with a space after each.
Repeated(word, n) == Concat([i \in 1..n |-> word \o <<" ">>])

Range(seq) == {seq[i] : i \in 1..Len(seq)}

(***************************************************************************)
(* The table identify_gaps is given.                                       *)
(***************************************************************************)
\* Rows of the table at most.
MaxRows == 3

Pages == {"/a", "/b"}

\* A URL no row has.
NoSuchPage == "/no-such-page"

Targets == Pages \cup {NoSuchPage}

RedShoes == <<"r", "e", "d", " ", "s", "h", "o", "e", "s">>

RedSocks == <<"r", "e", "d", " ", "s", "o", "c", "k", "s">>

BlueSocks == <<"b", "l", "u", "e", " ", "s", "o", "c", "k", "s">>

\* " The  RED - shoes ": a query as users type them.
TheRedShoes ==
    <<" ", "T", "h", "e", " ", " ", "R", "E", "D", " ", "-", " ",
      "s", "h", "o", "e", "s", " ">>

\* Letters that are no stopwords; ManyWords has the i-th of them i times.
Letters == <<"b", "c", "e", "f", "g", "h", "j", "k", "l", "n", "p">>

ManyWords == Concat([i \in 1..Len(Letters) |-> Repeated(<<Letters[i]>>, i)])

Queries == {RedShoes, RedSocks, BlueSocks, TheRedShoes, ManyWords}

\* The (page, query) pairs of the rows: every query on every page, but for
\* the longest one, which only "/b" is found by.
PageQueries ==
    {pq \in Pages \X Queries : pq[2] = ManyWords => pq[1] = "/b"}

\* Entries of stopwords.words('english').
Stopwords ==
    {<<"t", "h", "e">>, <<"h", "e">>, <<"s", "h", "e">>, <<"s", "o">>,
     <<"t", "o">>, <<"d", "o">>, <<"b", "e">>}

\* A row of the table: keys (date, page, query) and the metrics summed later.
Row(date, page, query) ==
    [date |-> date, page |-> page, query |-> query,
     clicks |-> 1, impressions |-> 2]

(***************************************************************************)
(* identify_gaps.                                                          *)
(***************************************************************************)
\* token_counts_df.head(10): the rows kept.
TopK == 10

\* df[df['page'] == selected_url], with every page taken for the target.
PageData_AllPages(rows, selected_url) == rows

\* df[df['page'] == selected_url].
PageData(rows, selected_url) ==
    SelectSeq(rows, LAMBDA r : r.page = selected_url)

RECURSIVE SumOf(_, _, _)
\* Sum of a column over the rows of one query.
SumOf(rows, query, column) ==
    IF rows = <<>> THEN 0
    ELSE (IF Head(rows).query = query THEN Head(rows)[column] ELSE 0)
         + SumOf(Tail(rows), query, column)

RECURSIVE SortedStrings(_)
\* The strings of a set in ascending order.
SortedStrings(set) ==
    IF set = {} THEN <<>>
    ELSE LET least == CHOOSE s \in set : \A o \in set \ {s} : StrLess(s, o)
         IN  <<least>> \o SortedStrings(set \ {least})

\* groupby('query').agg(...).reset_index(), with a group for every row.
GroupByQuery_EveryRow(rows) ==
    [i \in 1..Len(rows) |->
        [query |-> rows[i].query, clicks |-> rows[i].clicks,
         impressions |-> rows[i].impressions]]

\* groupby('query').agg(clicks sum, impressions sum).reset_index(): one row
\* for each distinct query, the queries in ascending order.
GroupByQuery(rows) ==
    LET keys == SortedStrings({rows[i].query : i \in 1..Len(rows)})
    IN  [i \in 1..Len(keys) |->
            [query |-> keys[i],
             clicks |-> SumOf(rows, keys[i], "clicks"),
             impressions |-> SumOf(rows, keys[i], "impressions")]]

\* word.lower() not in stopwords.words('english'), without the lower().
IsStopword_CaseSensitive(word) == word \in Stopwords

\* The negation of the condition of the comprehension:
\* word.lower() not in stopwords.words('english').
IsStopword(word) == Lower(word) \in Stopwords

\* [word.lower() for word in query.split() if ...] for one query.
QueryTokens(query) ==
    LET kept == SelectSeq(Split(query), LAMBDA word : ~IsStopword(word))
    IN  [i \in 1..Len(kept) |-> Lower(kept[i])]

\* tokens: the comprehension over the queries of the grouped table.
Tokens(grouped) ==
    Concat([i \in 1..Len(grouped) |-> QueryTokens(grouped[i].query)])

RECURSIVE Counter(_)
\* Counter(tokens).items(): every distinct token with the number of its
\* occurrences, in the order in which the tokens occur first.
Counter(tokens) ==
    IF tokens = <<>> THEN <<>>
    ELSE LET token == Head(tokens)
             same == SelectSeq(tokens, LAMBDA t : t = token)
             others == SelectSeq(tokens, LAMBDA t : t # token)
         IN  <<[token |-> token, count |-> Len(same)]>> \o Counter(others)

RECURSIVE SortValues(_)
\* sort_values(by='count', ascending=False) of a set of rows: the default
\* kind is quicksort, which promises no order between rows of equal count,
\* so every order of them is an outcome.
SortValues(items) ==
    IF items = {} THEN {<<>>}
    ELSE LET top == {x \in items : \A y \in items : x.count >= y.count}
         IN  UNION {{<<x>> \o rest : rest \in SortValues(items \ {x})} :
                        x \in top}

\* .head(n).
HeadRows(rows, n) == SubSeq(rows, 1, IF Len(rows) < n THEN Len(rows) ELSE n)

\* token_counts_df.head(10) of every outcome of the sort.
IdentifyGapsOutcomes(rows, selected_url) ==
    LET page_data == PageData(rows, selected_url)
        page_data_grouped == GroupByQuery(page_data)
        token_counts == Counter(Tokens(page_data_grouped))
    IN  {HeadRows(sorted, TopK) : sorted \in SortValues(Range(token_counts))}

NoGap == [state |-> "idle", url |-> "", counts |-> <<>>, terms |-> <<>>]

\* The table grows by a row: the rows of one more day.
AddRow ==
    /\ gap.state = "idle"
    /\ Len(table) < MaxRows
    /\ \E pq \in PageQueries :
         table' = Append(table, Row(Len(table) + 1, pq[1], pq[2]))
    /\ UNCHANGED <<gap, web, probe, mainVars>>

\* identify_gaps(df, selected_url) from its first line to its return; counts
\* is token_counts_df.head(10), terms its 'token' column as a list.
IdentifyGaps ==
    /\ gap.state = "idle"
    /\ \E selected_url \in Targets :
       \E head \in IdentifyGapsOutcomes(table, selected_url) :
         gap' = [state |-> "returned", url |-> selected_url, counts |-> head,
                 terms |-> [i \in 1..Len(head) |-> head[i].token]]
    /\ UNCHANGED <<table, web, probe, mainVars>>

(***************************************************************************)
(* scrape_title_meta_description.                                          *)
(***************************************************************************)
\* Ways in which requests.get or raise_for_status end without a page; each
\* is a requests.RequestException.
RequestFailures == {"ConnectionError", "Timeout", "HTTPError"}

\* soup.title of a page: no title element, one whose .string is None (no
\* text, or more than one child), one with text.
TitleElements == {"absent", "no_string", "text"}

\* soup.find('meta', attrs={'name': 'description'}) of a page: no such tag,
\* a tag without a content attribute, a tag with one.
MetaTags == {"absent", "no_content", "content"}

Page(title, meta) == [kind |-> "page", title |-> title, meta |-> meta]

Failure(kind) == [kind |-> kind, title |-> "absent", meta |-> "absent"]

\* What a URL can serve.
Responses ==
    {Failure(kind) : kind \in RequestFailures}
        \cup {Page(title, meta) : title \in TitleElements, meta \in MetaTags}

\* The text of a title element that has text, the content of a description.
TitleText == "Red shoes | Shop"

ContentText == "Buy red shoes."

\* The pair of the except branch.
ErrorPair ==
    [state |-> "returned", title |-> Some("Error fetching title"),
     meta_description |-> Some("Error fetching meta description")]

\* soup.title.string if soup.title else 'No title found'.
TitleOf(response) ==
    CASE response.title = "absent" -> Some("No title found")
      [] response.title = "no_string" -> None
      [] OTHER -> Some(TitleText)

\* The call on a URL that serves response: the pair it returns, or the
\* KeyError of meta_description_tag['content'], which no except clause of
\* the function catches.
ScrapeTitleMetaDescription(response) ==
    IF response.kind \in RequestFailures THEN ErrorPair
    ELSE IF response.meta = "no_content"
         THEN [state |-> "raised", title |-> None, meta_description |-> None]
    ELSE [state |-> "returned", title |-> TitleOf(response),
          meta_description |->
              IF response.meta = "absent"
              THEN Some("No meta description found")
              ELSE Some(ContentText)]

NoProbe ==
    [state |-> "idle", url |-> "", served |-> Page("text", "content"),
     title |-> None, meta_description |-> None]

\* A site changes what it serves at a URL, or stops serving it.
Serve ==
    /\ \E url \in Pages, response \in Responses :
         /\ web[url] # response
         /\ web' = [web EXCEPT ![url] = response]
    /\ UNCHANGED <<table, gap, probe, mainVars>>

\* scrape_title_meta_description(url), from the request to the return or
\* to the exception that leaves it.
Scrape ==
    /\ \E url \in Pages :
         LET result == ScrapeTitleMetaDescription(web[url])
         IN  probe' = [state |-> result.state, url |-> url,
                       served |-> web[url], title |-> result.title,
                       meta_description |-> result.meta_description]
    /\ UNCHANGED <<table, gap, web, mainVars>>

Init ==
    /\ now = 0
    /\ issued = 0
    /\ tokenFile = NoFile
    /\ loadCache = [hit |-> FALSE, value |-> None]
    /\ pc = "start"
    /\ credentials = None
    /\ auth = NoAuth
    /\ lastExchangeFailed = FALSE
    /\ all_responses = <<>>
    /\ start_row = 0
    /\ requests = <<>>
    /\ remoteN = 0
    /\ fetch = NoFetch
    /\ ui = {}
    /\ df = None
    /\ table = <<>>
    /\ gap = NoGap
    /\ web = [url \in Pages |-> Page("text", "content")]
    /\ probe = NoProbe

Next ==
    \/ AuthenticateUser
    \/ GetService
    \/ SkipFetch
    \/ StartFetch
    \/ PageRequest
    \/ FetchReturn
    \/ Analysis
    \/ Tick
    \/ Rerun
    \/ Restart

Spec == Init /\ [][Next]_vars

\* execute() is a blocking call with a timeout and the script is one thread:
\* a fetch that is in its loop gets its next reply.
FairSpec == Spec /\ WF_vars(PageRequest)

\* Calls of identify_gaps on the tables of at most MaxRows rows.
GapNext ==
    \/ AddRow
    \/ IdentifyGaps

GapSpec == Init /\ [][GapNext]_vars

\* Calls of scrape_title_meta_description on a web that changes.
ProbeNext ==
    \/ Serve
    \/ Scrape

ProbeSpec == Init /\ [][ProbeNext]_vars

(***************************************************************************)
(* Properties of fetch_search_console_data.                                *)
(***************************************************************************)
FetchErrorMessage ==
    "Error fetching data from Google Search Console. Please try again."

\* Some page request of this fetch ended in an error.
SomePageErrored ==
    \E i \in 1 .. Len(fetch.replies) :
        fetch.replies[i].kind \in {"HttpError", "exception"}

\* The fetch returned a table to main as its normal result.
Returned == fetch.state = "returned"

\* The chunks are the remote's rows 0 .. n-1, each once and in remote order.
IsCompleteDrain(all, n) ==
    /\ RowCount(all) = n
    /\ \A i \in 1 .. Len(all) :
          /\ all[i].count > 0
          /\ all[i].first = RowCount(SubSeq(all, 1, i - 1))

\* C1: all-or-nothing fetch. When some page request of a fetch errors, the
\* fetch does not return a table as a normal result, and main holds no table
\* of that fetch: the rows accumulated before the error are never returned.
C1_AllOrNothing ==
    SomePageErrored =>
        /\ ~Returned
        /\ fetch.table = None
        /\ "Data fetched successfully!" \notin ui

\* What main, the caller of fetch, has in hand when the call is over: how the
\* call ended, the value returned, st.session_state.df and main's own report.
CallerView ==
    [state |-> fetch.state, table |-> fetch.table, df |-> df,
     reported |-> "Data fetched successfully!" \in ui]

\* The view of a call that returned a table without rows as its result.
ZeroRowView ==
    [state |-> "returned", table |-> Some(DataFrame(<<>>, Dimensions)),
     df |-> Some(DataFrame(<<>>, Dimensions)), reported |-> TRUE]

\* The fetch is over: it returned or it raised.
FetchOver == fetch.state \in {"returned", "raised"}

\* The remote holds no row and answered the only request without an error.
LegitimatelyZeroRows ==
    /\ FetchOver
    /\ remoteN = 0
    /\ ~SomePageErrored

\* The first page request ended in an error.
FirstPageErrored ==
    /\ FetchOver
    /\ fetch.replies[1].kind \in {"HttpError", "exception"}

\* C2: an error on the first page request is distinguishable from a remote
\* that has zero rows. The run on zero rows ends with the caller holding the
\* zero-row table as a normal result; a run whose first request errors never
\* ends with the caller in that same position.
C2_ErrorDistinctFromZeroRows ==
    /\ LegitimatelyZeroRows => CallerView = ZeroRowView
    /\ FirstPageErrored => CallerView # ZeroRowView

FetchTerminates == (pc = "fetching") ~> (pc # "fetching")

FirstResponseWithoutRows ==
    /\ Len(fetch.replies) >= 1
    /\ fetch.replies[1].kind = "norows"

\* C5: an empty result is a terminal success. When the first response has no
\* 'rows', the loop is left after that single request, no error is shown or
\* raised, and the table returned has no row and the columns
\* date, page, query, clicks, impressions, ctr, position.
C5_EmptyIsSuccess ==
    FirstResponseWithoutRows =>
        /\ pc \notin {"fetching", "crashed"}
        /\ requests = <<0>>
        /\ fetch.state # "raised"
        /\ FetchErrorMessage \notin ui
        /\ Returned =>
              /\ fetch.table[1].rows = <<>>
              /\ fetch.table[1].columns =
                    <<"date", "page", "query",
                      "clicks", "impressions", "ctr", "position">>
              /\ df = fetch.table

\* C5 witness: a fetch whose only response had no 'rows' has returned.
C5_Witness ==
    /\ FirstResponseWithoutRows
    /\ Returned
    /\ "Data fetched successfully!" \in ui

(***************************************************************************)
(* Properties of the credential lifecycle.                                 *)
(***************************************************************************)
AuthPrompt == "Please authenticate using the following link:"

AuthFailedMessage == "Authentication failed. Please try again."

\* This run's call read the token file (the cache of load_credentials was
\* empty) and the file held credentials that were expired and carried a
\* refresh token.
RestoredExpiredWithRefreshToken ==
    /\ auth.called
    /\ ~auth.cacheHit
    /\ auth.fileBefore.data # None
    /\ Expired(auth.fileBefore.data[1], auth.at)
    /\ auth.fileBefore.data[1].refresh_token

\* C6: expired-session refresh path. When the session restored from the
\* store is expired and carries a refresh token, authenticate_user attempts
\* a refresh; a successful refresh is saved and returned valid, a failed one
\* leads to the code exchange and the expired session is not returned.
C6_ExpiredStoredSessionRefreshed ==
    RestoredExpiredWithRefreshToken =>
        /\ auth.refreshCalls = 1
        /\ auth.path = "refreshed" =>
              /\ auth.saves = <<auth.ret[1]>>
              /\ IsValid(auth.ret[1], auth.at)
        /\ auth.path # "refreshed" =>
              /\ auth.flowCalls = 1
              /\ auth.ret # auth.fileBefore.data

\* C7: only valid sessions are handed out. Whenever authenticate_user
\* returns a session, the session is valid at that time (it has a token and
\* has not expired); otherwise it returns None after asking for the
\* authorization code or reporting the failure.
C7_OnlyValidSessions ==
    auth.called =>
        /\ credentials = auth.ret
        /\ auth.ret # None => IsValid(auth.ret[1], auth.at)
        /\ auth.ret = None =>
              auth.shown \cap {AuthPrompt, AuthFailedMessage} # {}

\* The token file held a valid session when this run's call was made.
StoredSessionValid ==
    /\ auth.called
    /\ auth.fileBefore.data # None
    /\ IsValid(auth.fileBefore.data[1], auth.at)

\* C8: reuse of a valid session. When the stored session is valid, the call
\* returns that same session, with no refresh call, no code exchange and no
\* write to the token file.
C8_ValidStoredSessionReused ==
    StoredSessionValid =>
        /\ auth.ret = auth.fileBefore.data
        /\ auth.refreshCalls = 0
        /\ auth.exchangeCalls = 0
        /\ auth.saves = <<>>
        /\ tokenFile = auth.fileBefore

\* This run's call returned a refreshed or a newly exchanged session.
ReturnedNewSession ==
    /\ auth.called
    /\ auth.path \in {"refreshed", "exchanged"}

\* C9: persist before return. A call that returns a refreshed or a newly
\* exchanged session has handed exactly that session to save_credentials,
\* the token file is what that write attempt left, and whatever the write
\* did the session is returned, valid, to main.
C9_PersistBeforeReturn ==
    ReturnedNewSession =>
        /\ auth.ret # None
        /\ auth.saves = <<auth.ret[1]>>
        /\ tokenFile = SaveCredentials(auth.fileBefore, auth.ret[1],
                                       auth.saveOutcome)
        /\ credentials = auth.ret
        /\ IsValid(auth.ret[1], auth.at)

\* C9 witness: a refreshed session whose write failed half way, with which
\* main went on to build the service.
C9_Witness ==
    /\ auth.called
    /\ auth.path = "refreshed"
    /\ auth.saveOutcome = "dump_fails"
    /\ tokenFile = CorruptFile
    /\ credentials = auth.ret
    /\ pc = "ready"

\* This run's call tried the code exchange, and it failed.
ExchangeFailed ==
    /\ auth.called
    /\ auth.exchangeCalls = 1
    /\ auth.path # "exchanged"

\* This run's call tried a refresh, and it failed.
RefreshFailed ==
    /\ auth.called
    /\ auth.refreshCalls = 1
    /\ auth.path # "refreshed"

\* The call left the token file alone, returned no session, showed the
\* prompt for the code and the authentication error.
FailedAndAwaitingCode ==
    /\ tokenFile = auth.fileBefore
    /\ auth.saves = <<>>
    /\ auth.ret = None
    /\ credentials = None
    /\ AuthPrompt \in auth.shown
    /\ AuthFailedMessage \in auth.shown

\* The call that follows a failed exchange: any session it returns is valid,
\* without a session it has asked for the code again, and a good code
\* supplied to it is exchanged for a valid session.
RetryCanSucceed ==
    (auth.called /\ auth.afterFailure) =>
        /\ auth.ret # None => IsValid(auth.ret[1], auth.at)
        /\ auth.ret = None => auth.flowCalls = 1
        /\ auth.code = "good" =>
              /\ auth.path = "exchanged"
              /\ tokenFile = SaveCredentials(auth.fileBefore, auth.ret[1],
                                             auth.saveOutcome)

\* C10, as claimed: when the code exchange fails or a refresh fails, the
\* stored record is neither deleted nor overwritten, no session is returned,
\* the prompt for the code and an authentication error are shown, and a
\* later call with a good code reaches a valid session.
C10_FailureLeavesStoreIntact ==
    /\ (ExchangeFailed \/ RefreshFailed) => FailedAndAwaitingCode
    /\ RetryCanSucceed

\* C10, amended: a failed code exchange leaves the store intact, returns no
\* session and shows the prompt and the error; a failed refresh never returns
\* the expired session and goes on to the code exchange in the same call, so
\* that the store is left intact and no session returned unless that
\* exchange succeeds, and the error is shown only when the Flow or the
\* exchange fails; the call after a failed exchange can reach a valid
\* session with a good code.
C10_ExchangeFailureLeavesStoreIntact ==
    /\ ExchangeFailed => FailedAndAwaitingCode
    /\ RefreshFailed =>
          /\ auth.ret # auth.loaded
          /\ auth.flowCalls = 1
          /\ auth.path # "exchanged" =>
                /\ tokenFile = auth.fileBefore
                /\ auth.ret = None
          /\ AuthFailedMessage \in auth.shown <=>
                (~auth.secretsOk \/ ExchangeFailed)
    /\ RetryCanSucceed

\* C10 witness: after a failed exchange that left a stored record in place,
\* the next call exchanged a good code for a session.
C10_Witness ==
    /\ auth.called
    /\ auth.afterFailure
    /\ auth.fileBefore.data # None
    /\ auth.path = "exchanged"
    /\ credentials # None

(***************************************************************************)
(* Properties of the cursor and of the order of the page requests.         *)
(***************************************************************************)
\* Number of rows of the first k replies of this fetch.
RECURSIVE RowsReceived(_)
RowsReceived(k) ==
    IF k = 0 THEN 0 ELSE fetch.replies[k].count + RowsReceived(k - 1)

\* C18: cursor invariant. The first request of a fetch has startRow 0 and
\* every request has startRow equal to the number of rows of all earlier
\* responses; the cursor is the number of rows accumulated; a request is
\* issued only when every earlier one has its response handled, and no
\* response holds more rows than the row limit 25000 of the request.
C18_CursorInvariant ==
    /\ Len(requests) = Len(fetch.replies)
    /\ \A i \in 1 .. Len(requests) :
          /\ requests[i] = RowsReceived(i - 1)
          /\ fetch.replies[i].first = requests[i]
          /\ fetch.replies[i].count <= RowLimit
    /\ requests # <<>> => requests[1] = 0
    /\ start_row = RowsReceived(Len(fetch.replies))
    /\ start_row = RowCount(all_responses)

\* C18 witness: a third request, issued at startRow 50000 after two full
\* pages, got a short page.
C18_Witness ==
    /\ requests = <<0, RowLimit, 2 * RowLimit>>
    /\ fetch.replies[3].count = RowLimit - 1
    /\ start_row = 3 * RowLimit - 1
    /\ pc = "break"

\* C19: no page retry. Only the last reply of a fetch can be an error (no
\* request follows a request that errored) and no startRow is requested
\* twice.
C19_NoPageRetry ==
    /\ \A i \in 1 .. Len(fetch.replies) :
          fetch.replies[i].kind \in {"HttpError", "exception"} =>
              i = Len(requests)
    /\ \A i, j \in 1 .. Len(requests) :
          requests[i] = requests[j] => i = j

\* C19 witness: the second request of a fetch ended in an HttpError, the
\* loop was left and the function returned.
C19_Witness ==
    /\ Len(requests) = 2
    /\ fetch.replies[2].kind = "HttpError"
    /\ Returned

(***************************************************************************)
(* Properties of main.                                                     *)
(***************************************************************************)
\* What main shows only from inside the loop over the matching pages: a
\* scrape, a gap analysis or a suggestion request was made in this run.
AnalysisMessages ==
    ScrapedMessages
    \cup {"Analyzing URL:", "AI-generated Suggestions (GPT-3.5 Turbo):",
          "Error generating AI suggestions. Please check your API key and try again."}

\* In this run a page request was issued, or a page was analysed.
RemoteWorkDone ==
    \/ requests # <<>>
    \/ fetch.state # "idle"
    \/ ui \cap AnalysisMessages # {}

\* C20: session before fetch. A run issues a page request, analyses gaps or
\* requests suggestions only after authenticate_user returned a session and
\* the service was built from it; a run in which authenticate_user returned
\* no session does none of these and ends.
C20_SessionBeforeFetch ==
    /\ RemoteWorkDone =>
          /\ auth.called
          /\ auth.ret # None
          /\ credentials = auth.ret
          /\ "Failed to connect to Google Search Console. Please check your credentials and try again."
                \notin ui
    /\ (auth.called /\ auth.ret = None) =>
          /\ ~RemoteWorkDone
          /\ pc = "end"
          /\ "Please authenticate with Google to use this application." \in ui

\* C20 witness: a run that authenticated by a code exchange, fetched a table
\* with rows and got a suggestion for a matching page.
C20_Witness ==
    /\ auth.path = "exchanged"
    /\ Returned
    /\ RowCount(df[1].rows) > 0
    /\ "AI-generated Suggestions (GPT-3.5 Turbo):" \in ui
    /\ pc = "end"

(***************************************************************************)
(* Properties of identify_gaps.                                            *)
(***************************************************************************)
GapReturned == gap.state = "returned"

\* The rows of the table whose page is the target of the call.
TargetRowIndexes == {i \in 1..Len(table) : table[i].page = gap.url}

\* The distinct query strings of these rows.
TargetQueries == {table[i].query : i \in TargetRowIndexes}

\* The words of a query, in lower case.
FoldedWords(query) ==
    LET words == Split(query) IN [i \in 1..Len(words) |-> Lower(words[i])]

Occurrences(seq, x) == Cardinality({i \in 1..Len(seq) : seq[i] = x})

RECURSIVE WordsOver(_)
\* The words of a set of queries, one query after the other.
WordsOver(queries) ==
    IF queries = {} THEN <<>>
    ELSE LET query == CHOOSE q \in queries : TRUE
         IN  FoldedWords(query) \o WordsOver(queries \ {query})

\* The words of the distinct queries of the target.
TargetWords == WordsOver(TargetQueries)

\* Occurrences of a token over the distinct queries of the target, words
\* being the words of these queries.
Frequency(words, token) == Occurrences(words, token)

\* The tokens of the target's queries that are no stopwords.
SurvivingTokens == Range(TargetWords) \ Stopwords

\* The words of the target's rows in the order of the rows of the table.
WordsInRowOrder ==
    LET rows == SelectSeq(table, LAMBDA r : r.page = gap.url)
    IN  Concat([i \in 1..Len(rows) |-> FoldedWords(rows[i].query)])

\* Where a token occurs first in a sequence of words.
FirstOccurrence(words, token) ==
    CHOOSE i \in 1..Len(words) :
        /\ words[i] = token
        /\ \A j \in 1..(i - 1) : words[j] # token

\* The table of the example: three rows of the target with the queries
\* "red shoes", "red socks", "blue socks".
IsExampleTable ==
    /\ Len(table) = 3
    /\ \A i \in 1..3 : table[i].page = gap.url
    /\ [i \in 1..3 |-> table[i].query] = <<RedShoes, RedSocks, BlueSocks>>

ExampleRanking ==
    <<<<"r", "e", "d">>, <<"s", "o", "c", "k", "s">>,
      <<"s", "h", "o", "e", "s">>, <<"b", "l", "u", "e">>>>

\* C11: the terms identify_gaps returns are in descending order of
\* frequency, terms of equal frequency in the order in which they occur
\* first in the rows of the table; for the rows "red shoes", "red socks",
\* "blue socks" of the target the result is red, socks, shoes, blue.
C11_RankingOrder ==
    GapReturned =>
        LET words == TargetWords
            inRowOrder == WordsInRowOrder
        IN  /\ \A i, j \in 1..Len(gap.terms) :
                 i < j =>
                    \/ Frequency(words, gap.terms[i])
                           > Frequency(words, gap.terms[j])
                    \/ /\ Frequency(words, gap.terms[i])
                              = Frequency(words, gap.terms[j])
                       /\ FirstOccurrence(inRowOrder, gap.terms[i])
                              < FirstOccurrence(inRowOrder, gap.terms[j])
            /\ IsExampleTable => gap.terms = ExampleRanking

\* C12: the count identify_gaps ranks a token by is the number of its
\* occurrences over the distinct query strings of the rows of the target
\* page: a query on several rows counts once, rows of other pages count
\* nothing.
C12_FrequencyCounting ==
    GapReturned =>
        LET words == TargetWords
        IN  \A i \in 1..Len(gap.counts) :
                gap.counts[i].count = Frequency(words, gap.counts[i].token)

\* A call whose target has a query on two rows and a token in two queries,
\* on a table with a row of another page.
C12_Witness ==
    /\ GapReturned
    /\ \E i, j \in TargetRowIndexes : i # j /\ table[i].query = table[j].query
    /\ \E i \in 1..Len(gap.counts) : gap.counts[i].count >= 2
    /\ \E i \in 1..Len(table) : table[i].page # gap.url

IsJunk(token) == token = <<>> \/ Range(token) \subseteq Punctuation

\* C13: no term identify_gaps returns is the empty string or made of
\* punctuation characters only.
C13_NoJunkTokens ==
    GapReturned => \A i \in 1..Len(gap.terms) : ~IsJunk(gap.terms[i])

\* C14: every term identify_gaps returns is in lower case and no stopword,
\* so a word whose lower case form is a stopword is dropped in whatever
\* case the query has it.
C14_StopwordAndCase ==
    GapReturned =>
        \A i \in 1..Len(gap.terms) :
            /\ Lower(gap.terms[i]) = gap.terms[i]
            /\ gap.terms[i] \notin Stopwords

\* A call that returns terms for a target with a query that has a stopword
\* and another word in upper case.
C14_Witness ==
    /\ GapReturned
    /\ TheRedShoes \in TargetQueries
    /\ \E i \in 1..Len(gap.terms) : gap.terms[i] = <<"r", "e", "d">>

\* The counts a caller may want.
Counts == 1..(TopK + 1)

\* C15: identify_gaps returns min(count, number of distinct surviving
\* tokens) terms for the count the caller wants, 10 unless they say
\* otherwise.
C15_TopKSize ==
    GapReturned =>
        \A count \in Counts :
            Len(gap.terms) = Min(count, Cardinality(SurvivingTokens))

\* C16: on a table without a row of the target page, the table without rows
\* among them, identify_gaps returns the empty list.
C16_EmptyTarget ==
    (GapReturned /\ TargetRowIndexes = {}) => gap.terms = <<>>

\* A call on a table with rows, none of them of the target page.
C16_Witness ==
    /\ GapReturned
    /\ TargetRowIndexes = {}
    /\ Len(table) > 0
    /\ gap.terms = <<>>

(***************************************************************************)
(* Properties of scrape_title_meta_description.                            *)
(***************************************************************************)
ProbeCalled == probe.state # "idle"

\* C17: whatever the URL serves, scrape_title_meta_description raises
\* nothing and returns a pair of two strings, neither of them None, and for
\* a URL that cannot be fetched the pair is the one of the except branch.
C17_ProbeTotal ==
    ProbeCalled =>
        /\ probe.state = "returned"
        /\ probe.title # None
        /\ probe.meta_description # None
        /\ probe.served.kind \in RequestFailures =>
              /\ probe.title = ErrorPair.title
              /\ probe.meta_description = ErrorPair.meta_description

=============================================================================
